---- MODULE Spec2Model ----
(***************************************************************************)
(* tuiForms: terminal form toolkit (fields.py, forms.py, exceptions.py).   *)
(*                                                                         *)
(* Python values are modelled as uniform records [t, n, d, s]:             *)
(*   None            t = "None"                                            *)
(*   int  k          t = "int",      n = k                                 *)
(*   float n/10^d    t = "float",    n, d   (the double nearest to the     *)
(*                   normalised decimal n/10^d)                            *)
(*   str             t = "str",      s = sequence of one-character strings *)
(*   datetime        t = "datetime", n = year*10000 + month*100 + day      *)
(*   hash(x)         the int 0 for x = ""; otherwise t = "hash", with n = 1 *)
(*                   and s = text of x for a str x, n = 0 for hash(None)   *)
(* Text handled by int(), float() and strptime() is modelled over the      *)
(* characters digits, "_", sign, ".", " " and letters; exponent notation    *)
(* and the words "inf"/"nan" are outside the modelled input universe.      *)
(***************************************************************************)
EXTENDS Integers, Sequences, FiniteSets, TLC

\* ---------------------------------------------------------------- bounds
MaxTextLen == 2
MaxBound == 1
MaxLength == 2
MaxMantissa == 1
MaxFields == 2

\* ------------------------------------------------------ program constants
_DEFAULT_MAX_LENGTH == 256
DEFAULT_MANTISSA == 2

\* ----------------------------------------------------------------- values
Mk(t, n, d, s) == [t |-> t, n |-> n, d |-> d, s |-> s]
None == Mk("None", 0, 0, <<>>)
IntV(k) == Mk("int", k, 0, <<>>)
StrV(s) == Mk("str", 0, 0, s)
DateV(y, m, d) == Mk("datetime", y * 10000 + m * 100 + d, 0, <<>>)

RECURSIVE Pow10(_)
Pow10(k) == IF k = 0 THEN 1 ELSE 10 * Pow10(k - 1)

\* a float is n / 10^d; trailing decimal zeros are dropped so that equal
\* floats are equal records
RECURSIVE FloatV(_, _)
FloatV(n, d) ==
    IF d > 0 /\ n % 10 = 0 THEN FloatV(n \div 10, d - 1)
    ELSE Mk("float", n, d, <<>>)

IsNum(x) == x.t \in {"int", "float"}

\* Python truth value of an object (None, 0, 0.0 and "" are falsy)
Truthy(x) ==
    CASE x.t = "None" -> FALSE
      [] x.t \in {"int", "float"} -> x.n # 0
      [] x.t = "str" -> x.s # <<>>
      [] OTHER -> TRUE

\* a < b for int/float operands and for datetime operands
PyLt(a, b) ==
    IF a.t = "datetime" THEN a.n < b.n
    ELSE a.n * Pow10(b.d) < b.n * Pow10(a.d)

\* a == b : numbers compare by value across int/float, other types by content
PyEq(a, b) ==
    IF IsNum(a) /\ IsNum(b) THEN a.n * Pow10(b.d) = b.n * Pow10(a.d)
    ELSE a = b

\* ------------------------------------------------------------- characters
Digits == {"0", "1", "2", "3", "4", "5", "6", "7", "8", "9"}
Lower == {"a", "b", "c", "d", "e", "f", "g", "h", "i", "j", "k", "l", "m",
          "n", "o", "p", "q", "r", "s", "t", "u", "v", "w", "x", "y", "z"}
Upper == {"A", "B", "C", "D", "E", "F", "G", "H", "I", "J", "K", "L", "M",
          "N", "O", "P", "Q", "R", "S", "T", "U", "V", "W", "X", "Y", "Z"}
Alnum == Digits \cup Lower \cup Upper
\* \w of the re module (ASCII part)
WordChars == Alnum \cup {"_"}

DigitVal(c) ==
    CASE c = "0" -> 0 [] c = "1" -> 1 [] c = "2" -> 2 [] c = "3" -> 3
      [] c = "4" -> 4 [] c = "5" -> 5 [] c = "6" -> 6 [] c = "7" -> 7
      [] c = "8" -> 8 [] c = "9" -> 9

AllIn(s, C) == \A i \in 1..Len(s) : s[i] \in C

RECURSIVE DigitsValue(_)
DigitsValue(s) ==
    IF s = <<>> THEN 0
    ELSE 10 * DigitsValue(SubSeq(s, 1, Len(s) - 1)) + DigitVal(s[Len(s)])

DigitChar(k) == CHOOSE c \in Digits : DigitVal(c) = k

RECURSIVE NatText(_)
NatText(k) == IF k < 10 THEN <<DigitChar(k)>> ELSE Append(NatText(k \div 10), DigitChar(k % 10))

\* str(k) for an int k
IntText(k) == IF k < 0 THEN <<"-">> \o NatText(0 - k) ELSE NatText(k)

RECURSIVE Strip(_)
Strip(s) ==
    IF s = <<>> THEN s
    ELSE IF s[1] = " " THEN Strip(Tail(s))
    ELSE IF s[Len(s)] = " " THEN Strip(SubSeq(s, 1, Len(s) - 1))
    ELSE s

\* digits of a numeric literal: "_" may stand between two digits
DigitGroup(p) ==
    /\ p # <<>> /\ AllIn(p, Digits \cup {"_"})
    /\ p[1] \in Digits /\ p[Len(p)] \in Digits
    /\ \A i \in 1..(Len(p) - 1) : ~(p[i] = "_" /\ p[i + 1] = "_")

IsDigit(c) == c \in Digits
OnlyDigits(p) == SelectSeq(p, IsDigit)

\* positions of "." in s
DotsOf(s) == {i \in 1..Len(s) : s[i] = "."}

\* -------------------------------------------------------------- int(text)
\* result: [ok, v]; ok = FALSE stands for ValueError
IntOfText(s) ==
    LET t == Strip(s)
        signed == t # <<>> /\ t[1] \in {"+", "-"}
        body == IF signed THEN Tail(t) ELSE t
        good == DigitGroup(body)
        mag == IF good THEN DigitsValue(OnlyDigits(body)) ELSE 0
    IN [ok |-> good,
        v |-> IntV(IF signed /\ t[1] = "-" THEN 0 - mag ELSE mag)]

\* ------------------------------------------------------------ float(text)
FloatOfText(s) ==
    LET t == Strip(s)
        signed == t # <<>> /\ t[1] \in {"+", "-"}
        body == IF signed THEN Tail(t) ELSE t
        dots == DotsOf(body)
        p == IF dots = {} THEN Len(body) + 1 ELSE CHOOSE i \in dots : TRUE
        ip == SubSeq(body, 1, p - 1)
        fp == SubSeq(body, p + 1, Len(body))
        good == /\ Cardinality(dots) <= 1
                /\ ip = <<>> \/ DigitGroup(ip)
                /\ fp = <<>> \/ DigitGroup(fp)
                /\ Len(ip) + Len(fp) > 0
        fd == OnlyDigits(fp)
        mag == IF good THEN DigitsValue(OnlyDigits(ip)) * Pow10(Len(fd)) + DigitsValue(fd) ELSE 0
    IN [ok |-> good,
        v |-> FloatV(IF signed /\ t[1] = "-" THEN 0 - mag ELSE mag,
                     IF good THEN Len(fd) ELSE 0)]

\* ------------------------------------------------ strptime(text, %d.%m.%Y)
IsLeap(y) == (y % 4 = 0 /\ y % 100 # 0) \/ y % 400 = 0

DaysInMonth(y, m) ==
    IF m = 2 THEN (IF IsLeap(y) THEN 29 ELSE 28)
    ELSE IF m \in {4, 6, 9, 11} THEN 30 ELSE 31

\* %d : 3[0-1] | [1-2]\d | 0[1-9] | [1-9] | " "[1-9]
DayDirective(p) ==
    \/ Len(p) = 1 /\ p[1] \in Digits \ {"0"}
    \/ /\ Len(p) = 2
       /\ \/ p[1] = "3" /\ p[2] \in {"0", "1"}
          \/ p[1] \in {"1", "2"} /\ p[2] \in Digits
          \/ p[1] \in {"0", " "} /\ p[2] \in Digits \ {"0"}

\* %m : 1[0-2] | 0[1-9] | [1-9]
MonthDirective(p) ==
    \/ Len(p) = 1 /\ p[1] \in Digits \ {"0"}
    \/ /\ Len(p) = 2
       /\ \/ p[1] = "1" /\ p[2] \in {"0", "1", "2"}
          \/ p[1] = "0" /\ p[2] \in Digits \ {"0"}

\* %Y : \d\d\d\d
YearDirective(p) == Len(p) = 4 /\ AllIn(p, Digits)

\* result: [ok, v]; ok = FALSE stands for ValueError
DateOfText(s) ==
    LET dots == DotsOf(s)
        p1 == CHOOSE i \in dots : \A j \in dots : i <= j
        p2 == CHOOSE i \in dots : \A j \in dots : j <= i
        dp == SubSeq(s, 1, p1 - 1)
        mp == SubSeq(s, p1 + 1, p2 - 1)
        yp == SubSeq(s, p2 + 1, Len(s))
        shaped == /\ Cardinality(dots) = 2
                  /\ DayDirective(dp) /\ MonthDirective(mp) /\ YearDirective(yp)
        y == DigitsValue(yp)
        m == DigitsValue(mp)
        d == DigitsValue(Strip(dp))
        good == shaped /\ y >= 1 /\ d <= DaysInMonth(y, m)
    IN [ok |-> good, v |-> IF good THEN DateV(y, m, d) ELSE None]

\* ------------------------------------------------------ regular expressions
\* A pattern is run as a set of positions: position p means that the first
\* p characters of the text are consumed.  re.fullmatch succeeds iff some
\* way of matching consumes the whole text.

\* one character of class C
StepClass(s, P, C) == {p + 1 : p \in {q \in P : q < Len(s) /\ s[q + 1] \in C}}

\* C* : zero or more characters of class C
StarClass(s, P, C) ==
    {q \in 0..Len(s) : \E p \in P : p <= q /\ \A i \in (p + 1)..q : s[i] \in C}

\* C+ : one or more characters of class C
PlusClass(s, P, C) == StarClass(s, StepClass(s, P, C), C)

\* [.-_] is the character range from "." to "_"
DotToUnderscore ==
    {".", "/", ":", ";", "<", "=", ">", "?", "@", "[", "\\", "]", "^", "_"}
        \cup Digits \cup Upper

\* ([A-Za-z0-9]+[.-_])
EmailLocalGroup(s, P) == StepClass(s, PlusClass(s, P, Alnum), DotToUnderscore)

\* (\.[A-Z|a-z]{2,})
EmailDomainGroup(s, P) ==
    LET T == Upper \cup Lower \cup {"|"}
    IN PlusClass(s, StepClass(s, StepClass(s, P, {"."}), T), T)

RECURSIVE EmailLocalStar(_, _, _)
EmailLocalStar(s, P, k) ==
    IF k = 0 THEN P ELSE EmailLocalStar(s, P \cup EmailLocalGroup(s, P), k - 1)

RECURSIVE EmailDomainStar(_, _, _)
EmailDomainStar(s, P, k) ==
    IF k = 0 THEN P ELSE EmailDomainStar(s, P \cup EmailDomainGroup(s, P), k - 1)

\* re.fullmatch(r"([A-Za-z0-9]+[.-_])*[A-Za-z0-9]+@[A-Za-z0-9-]+(\.[A-Z|a-z]{2,})+", s)
EmailMatch(s) ==
    LET a == EmailLocalStar(s, {0}, Len(s))
        b == PlusClass(s, a, Alnum)
        c == StepClass(s, b, {"@"})
        d == PlusClass(s, c, Alnum \cup {"-"})
        e == EmailDomainStar(s, EmailDomainGroup(s, d), Len(s))
    IN Len(s) \in e

\* the country-code alternatives of the phone pattern
PhoneCode(s, P) ==
    LET two(A, B) == StepClass(s, StepClass(s, P, A), B)
    IN two({"9"}, {"6", "7", "9"}) \cup two({"8"}, {"0", "3", "5", "7", "8", "9"})
       \cup two({"6"}, {"7", "8", "9"}) \cup two({"5"}, {"9", "0"})
       \cup two({"4"}, {"2"}) \cup two({"3"}, {"5", "7", "8"})
       \cup two({"2"}, {"1", "2", "3", "4", "5", "6", "8", "9"})
       \cup two({"9"}, {"0", "1", "2", "3", "4", "5", "8"})
       \cup two({"8"}, {"1", "2", "4", "6"})
       \cup two({"6"}, {"0", "1", "2", "3", "4", "5", "6"})
       \cup two({"5"}, {"1", "2", "3", "4", "5", "6", "7", "8"})
       \cup two({"4"}, {"0", "1", "3", "4", "5", "6", "7", "8", "9"})
       \cup two({"3"}, {"0", "1", "2", "3", "4", "6", "9"})
       \cup two({"2"}, {"7", "0"})
       \cup StepClass(s, P, {"7"}) \cup StepClass(s, P, {"1"})

\* (?:\W*\d)
PhoneGroup(s, P) ==
    LET w == {q \in 0..Len(s) :
                \E p \in P : p <= q /\ \A i \in (p + 1)..q : s[i] \notin WordChars}
    IN StepClass(s, w, Digits)

\* (?:\W*\d){0,k}
RECURSIVE PhoneRepeat(_, _, _)
PhoneRepeat(s, P, k) ==
    IF k = 0 THEN P ELSE P \cup PhoneRepeat(s, PhoneGroup(s, P), k - 1)

PHONE_GROUP_MAX == 13

\* re.fullmatch(r"^\+(...)(?:\W*\d){0,13}\d$", s)
PhoneMatch(s) ==
    LET a == StepClass(s, {0}, {"+"})
        b == PhoneCode(s, a)
        c == PhoneRepeat(s, b, PHONE_GROUP_MAX)
        d == StepClass(s, c, Digits)
    IN Len(s) \in d

\* ------------------------------------------------------------------ fields
InputKinds == {"StringField", "IntegerField", "FloatField", "EmailField",
               "PhoneNumberField", "HashedField", "DateField"}
NumericKinds == {"IntegerField", "FloatField"}
StringKinds == {"StringField", "EmailField", "PhoneNumberField", "HashedField"}

\* the instance attributes of a field object; attributes a class does not
\* have are None here and are never read by that class's methods
MkField(kind, hint, min_value, max_value, mantissa, max_length, earlier_than, later_than) ==
    [kind |-> kind, hint |-> hint, min_value |-> min_value, max_value |-> max_value,
     mantissa |-> mantissa, max_length |-> max_length,
     earlier_than |-> earlier_than, later_than |-> later_than, _value |-> None]

NoField == MkField("none", None, None, None, 0, None, None, None)

\* OutputField()
OutputInit == [raised |-> "none", f |-> MkField("OutputField", None, None, None, 0, None, None, None)]

\* _NumericField.__init__ ; FloatField.__init__ adds mantissa
NumericInit(kind, max_value, min_value, hint, mantissa) ==
    IF min_value = None \/ max_value = None
    THEN [raised |-> "TypeError", f |-> NoField]
    ELSE LET mn == IF PyLt(max_value, min_value) THEN IntV(max_value.n - 2) ELSE min_value
         IN [raised |-> "none",
             f |-> MkField(kind, hint, mn, max_value,
                           IF kind = "FloatField" THEN mantissa ELSE 0,
                           None, None, None)]

\* StringField.__init__ (inherited by EmailField, PhoneNumberField, HashedField)
StringInit(kind, hint, max_length) ==
    [raised |-> "none", f |-> MkField(kind, hint, None, None, 0, max_length, None, None)]

\* DateField.__init__
DateInit(earlier_than, later_than, hint) ==
    IF Truthy(earlier_than) /\ Truthy(later_than) /\ ~PyLt(later_than, earlier_than)
    THEN [raised |-> "ValueError", f |-> NoField]
    ELSE [raised |-> "none",
          f |-> MkField("DateField", hint, None, None, 0, None, earlier_than, later_than)]

\* _InputField._convert_type and DateField._convert_type;
\* ok = FALSE stands for ValidateError
ConvertType(f, x) ==
    CASE f.kind \in StringKinds ->
            [ok |-> TRUE, v |-> IF x.t = "int" THEN StrV(IntText(x.n)) ELSE x]
      [] f.kind = "IntegerField" ->
            IF x.t = "int" THEN [ok |-> TRUE, v |-> x] ELSE IntOfText(x.s)
      [] f.kind = "FloatField" ->
            IF x.t = "int" THEN [ok |-> TRUE, v |-> FloatV(x.n, 0)] ELSE FloatOfText(x.s)
      [] f.kind = "DateField" ->
            IF x.t = "int" THEN [ok |-> FALSE, v |-> None] ELSE DateOfText(x.s)

\* validate() returns None or a ValidateError; the error is named by its check
ValidateInput(f, value) == "None"

\* _NumericField.validate
ValidateNumeric(f, value) ==
    IF Truthy(f.min_value) /\ ~Truthy(f.max_value)
    THEN IF ~PyLt(f.min_value, value) THEN "min_value" ELSE ValidateInput(f, value)
    ELSE IF Truthy(f.max_value) /\ ~Truthy(f.min_value)
    THEN IF ~PyLt(value, f.max_value) THEN "max_value" ELSE ValidateInput(f, value)
    ELSE IF Truthy(f.max_value) /\ Truthy(f.min_value)
    THEN IF ~(PyLt(f.min_value, value) /\ PyLt(value, f.max_value))
         THEN "min_max" ELSE ValidateInput(f, value)
    ELSE ValidateInput(f, value)

\* StringField.validate
ValidateString(f, value) ==
    IF Truthy(f.max_length) /\ Len(value.s) > f.max_length.n
    THEN "max_length"
    ELSE ValidateInput(f, value)

\* EmailField.validate
ValidateEmail(f, value) ==
    IF ~EmailMatch(value.s) THEN "email" ELSE ValidateString(f, value)

\* PhoneNumberField.validate
ValidatePhone(f, value) ==
    IF ~PhoneMatch(value.s) THEN "phone" ELSE ValidateString(f, value)

\* variant of DateField.validate that admits the bound dates themselves
ValidateDate_Inclusive(f, value) ==
    IF Truthy(f.earlier_than) /\ ~Truthy(f.later_than)
    THEN IF PyLt(f.earlier_than, value) THEN "earlier_than" ELSE ValidateInput(f, value)
    ELSE IF Truthy(f.later_than) /\ ~Truthy(f.earlier_than)
    THEN IF PyLt(value, f.later_than) THEN "later_than" ELSE ValidateInput(f, value)
    ELSE IF Truthy(f.later_than) /\ Truthy(f.earlier_than)
    THEN IF PyLt(value, f.later_than) \/ PyLt(f.earlier_than, value)
         THEN "later_earlier" ELSE ValidateInput(f, value)
    ELSE ValidateInput(f, value)

\* DateField.validate
ValidateDate(f, value) ==
    IF Truthy(f.earlier_than) /\ ~Truthy(f.later_than)
    THEN IF ~PyLt(value, f.earlier_than) THEN "earlier_than" ELSE ValidateInput(f, value)
    ELSE IF Truthy(f.later_than) /\ ~Truthy(f.earlier_than)
    THEN IF ~PyLt(f.later_than, value) THEN "later_than" ELSE ValidateInput(f, value)
    ELSE IF Truthy(f.later_than) /\ Truthy(f.earlier_than)
    THEN IF ~(PyLt(f.later_than, value) /\ PyLt(value, f.earlier_than))
         THEN "later_earlier" ELSE ValidateInput(f, value)
    ELSE ValidateInput(f, value)

\* method resolution of validate()
Validate(f, value) ==
    CASE f.kind \in NumericKinds -> ValidateNumeric(f, value)
      [] f.kind \in {"StringField", "HashedField"} -> ValidateString(f, value)
      [] f.kind = "EmailField" -> ValidateEmail(f, value)
      [] f.kind = "PhoneNumberField" -> ValidatePhone(f, value)
      [] f.kind = "DateField" -> ValidateDate(f, value)

\* variant of the setter that stores the converted value before validating
SetValue_StoreFirst(f, x) ==
    LET c == ConvertType(f, x)
    IN IF ~c.ok THEN [raised |-> "ValidateError", f |-> f]
       ELSE IF Validate(f, c.v) = "None"
            THEN [raised |-> "none", f |-> [f EXCEPT !._value = c.v]]
            ELSE [raised |-> "ValidateError", f |-> [f EXCEPT !._value = c.v]]

\* _InputField.value setter
SetValue(f, x) ==
    LET c == ConvertType(f, x)
    IN IF ~c.ok THEN [raised |-> "ValidateError", f |-> f]
       ELSE IF Validate(f, c.v) = "None"
            THEN [raised |-> "none", f |-> [f EXCEPT !._value = c.v]]
            ELSE [raised |-> "ValidateError", f |-> f]

\* significand width of the binary double that float() produces
DOUBLE_BITS == 53

RECURSIVE BitLen(_)
BitLen(k) == IF k = 0 THEN 0 ELSE 1 + BitLen(k \div 2)

\* the fraction r/den is expanded in binary until the significand has no bit
\* left; the rest decides how the double was rounded: 1 when the double is
\* above the decimal, -1 when below, 0 when the decimal is a double exactly
RECURSIVE BinaryRest(_, _, _, _)
BinaryRest(r, den, left, last) ==
    IF r = 0 THEN 0
    ELSE IF left = 0
    THEN (IF 2 * r > den THEN 1
          ELSE IF 2 * r < den THEN 0 - 1
          ELSE IF last = 1 THEN 1 ELSE 0 - 1)
    ELSE LET b == IF 2 * r >= den THEN 1 ELSE 0
         IN BinaryRest(2 * r - b * den, den,
                       IF left = DOUBLE_BITS /\ b = 0 THEN left ELSE left - 1, b)

\* sign of (the double nearest to n/10^d) - n/10^d
DoubleError(x) ==
    LET mag == IF x.n < 0 THEN 0 - x.n ELSE x.n
        den == Pow10(x.d)
        ip == mag \div den
        e == BinaryRest(mag % den, den, DOUBLE_BITS - BitLen(ip), ip % 2)
    IN IF x.n < 0 THEN 0 - e ELSE e

\* round(x, ndigits) of a float: the double is rounded to the nearest
\* decimal of ndigits digits; a decimal that lies halfway goes where its
\* double lies, and to the even neighbour when the double is exact
RoundFloat(x, m) ==
    IF x.d <= m THEN x
    ELSE LET q == Pow10(x.d - m)
             lo == x.n \div q
             r == x.n % q
             e == DoubleError(x)
             k == IF 2 * r < q THEN lo
                  ELSE IF 2 * r > q THEN lo + 1
                  ELSE IF e > 0 THEN lo + 1
                  ELSE IF e < 0 THEN lo
                  ELSE IF lo % 2 = 0 THEN lo ELSE lo + 1
         IN FloatV(k, m)

\* hash(x) of None or of a str: an int; hash("") is 0, the hash of any other
\* text and of None is an int that no modelled number equals
HashOf(x) ==
    IF x.t = "str" /\ x.s = <<>> THEN IntV(0)
    ELSE Mk("hash", IF x = None THEN 0 ELSE 1, 0, x.s)

\* the value getter: _Field.value, FloatField.value, HashedField.value
GetValue(f) ==
    CASE f.kind = "FloatField" ->
            IF f._value = None THEN [raised |-> "TypeError", v |-> None]
            ELSE [raised |-> "none", v |-> RoundFloat(f._value, f.mantissa)]
      [] f.kind = "HashedField" -> [raised |-> "none", v |-> HashOf(f._value)]
      [] OTHER -> [raised |-> "none", v |-> f._value]

\* _formatted_input of each class: the annotation of the prompt it passes to
\* input(), or the error it raises before input() is called
FormattedInput(f) ==
    CASE f.kind \in NumericKinds ->
            [raised |-> "none",
             prompt |-> IF Truthy(f.hint) THEN "(hint, )"
                        ELSE IF Truthy(f.min_value) /\ ~Truthy(f.max_value) THEN "(>min)"
                        ELSE IF Truthy(f.max_value) /\ ~Truthy(f.min_value) THEN "(<max)"
                        ELSE IF Truthy(f.min_value) /\ Truthy(f.max_value) THEN "(min < n < max)"
                        ELSE "()"]
      [] f.kind \in StringKinds ->
            [raised |-> "none",
             prompt |-> IF Truthy(f.hint) /\ Truthy(f.max_length) THEN "(hint, max.)"
                        ELSE IF Truthy(f.hint) THEN "(hint)"
                        ELSE IF Truthy(f.max_length) THEN "(max.)"
                        ELSE ""]
      [] f.kind = "DateField" ->
            IF Truthy(f.hint) THEN [raised |-> "none", prompt |-> "(hint)"]
            ELSE IF Truthy(f.earlier_than) /\ ~Truthy(f.later_than)
            THEN [raised |-> "none", prompt |-> "(< earlier)"]
            ELSE IF Truthy(f.later_than) /\ ~Truthy(f.earlier_than)
            THEN [raised |-> "AttributeError", prompt |-> ""]
            ELSE IF Truthy(f.later_than) /\ Truthy(f.earlier_than)
            THEN [raised |-> "none", prompt |-> "(later < n < earlier)"]
            ELSE [raised |-> "none", prompt |-> ""]

\* ------------------------------------------------------------ input domains
Chars == {"1", "-", ".", "a"}

Samples ==
    { <<"0">>, <<"2">>, <<"3", "0">>, <<"2", "0", "0">>, <<"-", "2">>, <<" ", "1">>,
      <<"1", ".", "2", "6">>, <<"2", ".", "5">>, <<"0", ".", "1", "5">>,
      <<"0", ".", "3", "5">>,
      <<"A", "l", "i", "c", "e">>, <<"p", "w">>,
      <<"a", "@", "b", ".", "c", "c">>, <<"a", "1", "b", "@", "b", ".", "c", "|">>,
      <<"+", "1", "1">>, <<"+", "7", "-", "1">>, <<"+", "4", "2">>,
      <<"3", "1", ".", "1", "2", ".", "2", "0", "1", "8">>,
      <<"0", "1", ".", "0", "1", ".", "2", "0", "1", "9">>,
      <<"2", ".", "1", ".", "2", "0", "1", "9">>,
      <<"0", "1", ".", "0", "1", ".", "2", "0", "2", "0">>,
      <<" ", "2", ".", "1", ".", "2", "0", "2", "0">>,
      <<"2", "9", ".", "0", "2", ".", "2", "0", "1", "9">>,
      <<"1", ".", "1", ".", "2", "0" >> }

Texts == UNION {[1..k -> Chars] : k \in 0..MaxTextLen} \cup Samples

\* what input() can return
RawTexts == {StrV(s) : s \in Texts}

\* what a caller can assign to value: text, or an int as the tests do
WriteInputs == RawTexts \cup {IntV(i) : i \in (0 - MaxBound - 1)..(MaxBound + 1)} \cup {IntV(60)}

HintVals == {None, StrV(<<"h">>)}
BoundVals == {None} \cup {IntV(i) : i \in (0 - MaxBound)..MaxBound}
MaxLengthVals == {None, IntV(_DEFAULT_MAX_LENGTH)} \cup {IntV(i) : i \in 0..MaxLength}
MantissaVals == (0..MaxMantissa) \cup {DEFAULT_MANTISSA}
DateBoundVals == {None} \cup {DateV(2019 + i, 1, 1) : i \in 0..MaxBound}

\* ------------------------------------------------------------------- state
VARIABLES
    field,      \* the field object under test (NoField before construction)
    outcome,    \* what the last operation on the field did
    rpc,        \* position of render(): "idle", "loop", "returned", "raised"
    lastGood,   \* history: converted value of the last write that passed
    form,       \* the Form object: where its attributes are declared
    ffields,    \* the field objects of the form, by attribute name
    spc,        \* position of show(): "idle", "loop", "done", "raised"
    order,      \* the items of __get_fields() that show() iterates
    idx,        \* index in order of the field show() is rendering
    res,        \* the result mapping of show()
    rendered,   \* history: names in the order their render() returned
    valid       \* result of is_valid() when it was the last call, else "none"

fvars == <<field, outcome, rpc, lastGood>>
formvars == <<form, ffields, spc, order, idx, res, rendered, valid>>
vars == <<field, outcome, rpc, lastGood, form, ffields, spc, order, idx, res, rendered, valid>>

Out(op, raised, kind, a1, a2, v) ==
    [op |-> op, raised |-> raised, kind |-> kind, a1 |-> a1, a2 |-> a2, v |-> v]

FieldInit ==
    /\ field = NoField
    /\ outcome = Out("init", "none", "none", None, None, None)
    /\ rpc = "idle"
    /\ lastGood = None

Constructed == field.kind # "none"

\* _NumericField.__init__ / FloatField.__init__ is called; the outcome keeps
\* the bounds it was given (a1 = min_value, a2 = max_value)
ConstructNumeric ==
    /\ ~Constructed
    /\ \E kind \in NumericKinds, mx \in BoundVals, mn \in BoundVals,
          hint \in HintVals, mantissa \in MantissaVals :
        /\ kind = "IntegerField" => mantissa = DEFAULT_MANTISSA
        /\ field' = NumericInit(kind, mx, mn, hint, mantissa).f
        /\ outcome' = Out("construct", NumericInit(kind, mx, mn, hint, mantissa).raised,
                          kind, mn, mx, None)
    /\ UNCHANGED <<rpc, lastGood>>
    /\ UNCHANGED formvars

\* StringField.__init__ is called (also for the classes derived from it)
ConstructString ==
    /\ ~Constructed
    /\ \E kind \in StringKinds, hint \in HintVals, ml \in MaxLengthVals :
        /\ field' = StringInit(kind, hint, ml).f
        /\ outcome' = Out("construct", StringInit(kind, hint, ml).raised, kind, None, None, None)
    /\ UNCHANGED <<rpc, lastGood>>
    /\ UNCHANGED formvars

\* DateField.__init__ is called; the outcome keeps the bounds it was given
\* (a1 = earlier_than, a2 = later_than)
ConstructDate ==
    /\ ~Constructed
    /\ \E e \in DateBoundVals, l \in DateBoundVals, hint \in HintVals :
        /\ field' = DateInit(e, l, hint).f
        /\ outcome' = Out("construct", DateInit(e, l, hint).raised, "DateField", e, l, None)
    /\ UNCHANGED <<rpc, lastGood>>
    /\ UNCHANGED formvars

\* OutputField() is called
ConstructOutput ==
    /\ ~Constructed
    /\ field' = OutputInit.f
    /\ outcome' = Out("construct", OutputInit.raised, "OutputField", None, None, None)
    /\ UNCHANGED <<rpc, lastGood>>
    /\ UNCHANGED formvars

\* attribute assignment on a constructed field, as the tests do
SetAttr ==
    /\ Constructed /\ rpc # "loop"
    /\ \/ /\ field.kind \in NumericKinds
          /\ \E b \in BoundVals :
                \/ field' = [field EXCEPT !.min_value = b]
                \/ field' = [field EXCEPT !.max_value = b]
       \/ /\ field.kind \in StringKinds
          /\ \E ml \in MaxLengthVals : field' = [field EXCEPT !.max_length = ml]
       \/ /\ field.kind = "FloatField"
          /\ \E m \in MantissaVals : field' = [field EXCEPT !.mantissa = m]
    /\ outcome' = Out("setattr", "none", field.kind, None, None, None)
    /\ UNCHANGED <<rpc, lastGood>>
    /\ UNCHANGED formvars

\* history of the claim "stored value = converted value of the last passing write"
Passes(f, x) == ConvertType(f, x).ok /\ Validate(f, ConvertType(f, x).v) = "None"
NextGood(f, x) == IF Passes(f, x) THEN ConvertType(f, x).v ELSE lastGood

\* field.value = x
Write ==
    /\ Constructed /\ field.kind \in InputKinds /\ rpc # "loop"
    /\ \E x \in WriteInputs :
        LET r == SetValue(field, x)
        IN /\ field' = r.f
           /\ outcome' = Out("write", r.raised, field.kind, None, None, None)
           /\ lastGood' = NextGood(field, x)
    /\ UNCHANGED rpc
    /\ UNCHANGED formvars

\* reading field.value
Read ==
    /\ Constructed /\ rpc # "loop"
    /\ LET r == GetValue(field)
       IN outcome' = Out("read", r.raised, field.kind, None, None, r.v)
    /\ UNCHANGED <<field, rpc, lastGood>>
    /\ UNCHANGED formvars

\* render() is entered: value_changed = False
RenderCall ==
    /\ Constructed /\ field.kind \in InputKinds /\ rpc # "loop"
    /\ rpc' = "loop"
    /\ outcome' = Out("render", "none", field.kind, None, None, None)
    /\ UNCHANGED <<field, lastGood>>
    /\ UNCHANGED formvars

\* one iteration of the loop of render(): prompt, assign, report or leave
RenderIter ==
    /\ rpc = "loop"
    /\ LET p == FormattedInput(field)
       IN IF p.raised # "none"
          THEN /\ rpc' = "raised"
               /\ outcome' = Out("prompt", p.raised, field.kind, None, None, None)
               /\ UNCHANGED <<field, lastGood>>
          ELSE \E x \in RawTexts :
                LET r == SetValue(field, x)
                IN /\ field' = r.f
                   /\ rpc' = IF r.raised = "none" THEN "returned" ELSE "loop"
                   /\ outcome' = Out("prompt", IF r.raised = "none" THEN "none" ELSE "reported",
                                     field.kind, None, None, None)
                   /\ lastGood' = NextGood(field, x)
    /\ UNCHANGED formvars

\* first write of a field that holds no value yet; the outcome keeps the
\* converted value that was offered (None when conversion failed)
Attempt ==
    /\ Constructed /\ field.kind \in InputKinds /\ rpc # "loop"
    /\ field._value = None
    /\ \E x \in WriteInputs :
        LET r == SetValue(field, x)
            c == ConvertType(field, x)
        IN /\ field' = r.f
           /\ outcome' = Out("attempt", r.raised, field.kind, None, None,
                             IF c.ok THEN c.v ELSE None)
           /\ lastGood' = NextGood(field, x)
    /\ UNCHANGED rpc
    /\ UNCHANGED formvars

\* -------------------------------------------------------------------- forms
Absent == Mk("absent", 0, 0, <<>>)

Names == {"name", "age", "price", "password", "confirm"}

\* the field object a form declares under each name
FieldOf(n) ==
    CASE n = "name" -> StringInit("StringField", None, IntV(_DEFAULT_MAX_LENGTH)).f
      [] n = "age" -> NumericInit("IntegerField", IntV(120), IntV(0), None, DEFAULT_MANTISSA).f
      [] n = "price" -> NumericInit("FloatField", IntV(100), IntV(0), None, 1).f
      [] n = "password" -> StringInit("HashedField", None, IntV(_DEFAULT_MAX_LENGTH)).f
      [] n = "confirm" -> StringInit("HashedField", None, IntV(_DEFAULT_MAX_LENGTH)).f

FormTexts ==
    {StrV(s) : s \in { <<"A", "l", "i", "c", "e">>, <<"3", "0">>, <<"p", "w">>,
                       <<"1", ".", "2", "6">>, <<"2", "0", "0">>,
                       <<>>, <<"0">>, <<"0", ".", "1", "5">> }}

FormNames == {Absent, StrV(<<>>), StrV(<<"l", "o", "g", "i", "n">>)}

Range(q) == {q[i] : i \in 1..Len(q)}
NameSeqs(k) == {q \in UNION {[1..j -> Names] : j \in 0..k} :
                    \A i, j \in 1..Len(q) : i # j => q[i] # q[j]}

NoMatch == [declared |-> FALSE, fields |-> <<>>]

ParkedForm == [base |-> <<>>, cls |-> <<>>, inst |-> <<>>,
               form_name |-> Absent, should_match |-> NoMatch]

FormParked ==
    /\ form = ParkedForm
    /\ ffields = [n \in Names |-> FieldOf(n)]
    /\ spc = "parked"
    /\ order = <<>>
    /\ idx = 0
    /\ res = <<>>
    /\ rendered = <<>>
    /\ valid = "none"

\* a form object of a class whose body declares cls and whose base class
\* declares base; instance attributes are added later; _should_match, when
\* declared, is a pair of the declared fields
FormInit ==
    /\ \E b \in NameSeqs(MaxFields), c \in NameSeqs(MaxFields), fname \in FormNames :
        /\ Range(b) \cap Range(c) = {}
        /\ Len(b) + Len(c) <= MaxFields
        /\ \E m \in {NoMatch} \cup
                    {[declared |-> TRUE, fields |-> q] :
                        q \in {p \in NameSeqs(2) : Len(p) = 2 /\ Range(p) \subseteq Range(b \o c)}} :
            form = [base |-> b, cls |-> c, inst |-> <<>>, form_name |-> fname,
                    should_match |-> m]
    /\ ffields = [n \in Names |-> FieldOf(n)]
    /\ spc = "idle"
    /\ order = <<>>
    /\ idx = 0
    /\ res = <<>>
    /\ rendered = <<>>
    /\ valid = "none"

\* Form.__get_fields: the names of the attributes that are fields, in the
\* order of object.__dir__(): the instance's own attributes first, then the
\* attributes of its class, then those of the base classes
GetFields(fm) == fm.inst \o fm.cls \o fm.base

\* the order in which the attributes were declared and registered
DeclOrder(fm) == fm.base \o fm.cls \o fm.inst

\* Form.add_field (and plain attribute assignment on the form object)
AddField ==
    /\ spc = "idle"
    /\ Len(DeclOrder(form)) < MaxFields
    /\ \E n \in Names \ Range(DeclOrder(form)) :
        form' = [form EXCEPT !.inst = Append(@, n)]
    /\ valid' = "none"
    /\ UNCHANGED <<ffields, spc, order, idx, res, rendered>>
    /\ UNCHANGED fvars

\* Form.show up to its loop: res = dict(), show_name(), __get_fields()
Show ==
    /\ spc = "idle"
    /\ IF form.form_name = Absent
       THEN /\ spc' = "raised"
            /\ UNCHANGED <<order, idx>>
       ELSE /\ spc' = "loop"
            /\ order' = GetFields(form)
            /\ idx' = 1
    /\ res' = <<>>
    /\ valid' = "none"
    /\ UNCHANGED <<form, ffields, rendered>>
    /\ UNCHANGED fvars

\* one prompt of the render() that show() is in; when the input passes,
\* render() returns and show() stores field.value under the field's name
ShowRender ==
    /\ spc = "loop" /\ idx <= Len(order)
    /\ LET n == order[idx]
           f == ffields[n]
           p == FormattedInput(f)
       IN IF p.raised # "none"
          THEN /\ spc' = "raised"
               /\ UNCHANGED <<ffields, idx, res, rendered>>
          ELSE \E x \in FormTexts :
                LET r == SetValue(f, x)
                    g == GetValue(r.f)
                IN IF r.raised # "none"
                   THEN UNCHANGED <<ffields, spc, idx, res, rendered>>
                   ELSE /\ ffields' = [ffields EXCEPT ![n] = r.f]
                        /\ rendered' = Append(rendered, n)
                        /\ IF g.raised # "none"
                           THEN spc' = "raised" /\ UNCHANGED <<idx, res>>
                           ELSE /\ res' = (n :> g.v) @@ res
                                /\ idx' = idx + 1
                                /\ UNCHANGED spc
    /\ valid' = "none"
    /\ UNCHANGED <<form, order>>
    /\ UNCHANGED fvars

\* the loop of show() is exhausted: return res
ShowReturn ==
    /\ spc = "loop" /\ idx > Len(order)
    /\ spc' = "done"
    /\ valid' = "none"
    /\ UNCHANGED <<form, ffields, order, idx, res, rendered>>
    /\ UNCHANGED fvars

\* all(self._should_match[0].value == field.value for field in self._should_match)
RECURSIVE AllMatch(_, _, _)
AllMatch(ff, t, i) ==
    IF i > Len(t) THEN "True"
    ELSE LET a == GetValue(ff[t[1]])
             b == GetValue(ff[t[i]])
         IN IF a.raised # "none" THEN a.raised
            ELSE IF b.raised # "none" THEN b.raised
            ELSE IF ~PyEq(a.v, b.v) THEN "False"
            ELSE AllMatch(ff, t, i + 1)

\* Form.is_valid: "True", "False" or the error that escapes
IsValidResult(fm, ff) ==
    IF fm.should_match.declared
    THEN AllMatch(ff, fm.should_match.fields, 1)
    ELSE "True"

IsValid ==
    /\ spc \in {"idle", "done", "raised"}
    /\ valid' = IsValidResult(form, ffields)
    /\ UNCHANGED <<form, ffields, spc, order, idx, res, rendered>>
    /\ UNCHANGED fvars

\* ----------------------------------------------------------- specifications
Init == FieldInit /\ FormParked

\* the life of one field object
Next ==
    \/ ConstructNumeric
    \/ ConstructString
    \/ ConstructDate
    \/ ConstructOutput
    \/ SetAttr
    \/ Write
    \/ Read
    \/ RenderCall
    \/ RenderIter

Spec == Init /\ [][Next]_vars

\* conversion and validation applied to a field that holds no value yet
NextCheck ==
    \/ ConstructNumeric
    \/ ConstructString
    \/ ConstructDate
    \/ SetAttr
    \/ Attempt

SpecCheck == Init /\ [][NextCheck]_vars

InitForm == FieldInit /\ FormInit

\* one form object: registration, show() and is_valid()
NextForm ==
    \/ AddField
    \/ Show
    \/ ShowRender
    \/ ShowReturn
    \/ IsValid

SpecForm == InitForm /\ [][NextForm]_vars

\* ------------------------------------------------------------------ claims

\* C1: every write either raises ValidateError and leaves the stored value
\* as it was, or stores the converted value; so the stored value is always
\* None or the converted value of the last write that passed conversion and
\* validation.
C1_WriteGate ==
    [][ /\ outcome'.op = "write" => outcome'.raised \in {"none", "ValidateError"}
        /\ (outcome'.op = "write" /\ outcome'.raised = "ValidateError")
              => field'._value = field._value
        /\ (outcome'.op = "prompt" /\ outcome'.raised = "reported")
              => field'._value = field._value
        /\ field'._value = lastGood' ]_vars

\* a rejected write on a field that already holds an accepted value
C1_Witness ==
    /\ outcome.op = "write" /\ outcome.raised = "ValidateError"
    /\ field._value # None

\* C2: render() of every input field is a prompt loop: every iteration gets
\* its text through the prompt, a rejected input is reported and prompted
\* again, nothing escapes render(), and render() returns with the accepted
\* converted value stored.
C2_RenderLoop ==
    /\ rpc # "raised"
    /\ outcome.op = "prompt" => outcome.raised \in {"none", "reported"}
    /\ rpc = "returned" => (field._value # None /\ field._value = lastGood)

\* C3: show() renders the fields in declaration/registration order, one
\* after the other, each registered field exactly once.
C3_DeclarationOrder ==
    /\ Len(rendered) <= Len(DeclOrder(form))
    /\ rendered = SubSeq(DeclOrder(form), 1, Len(rendered))
    /\ spc = "done" => rendered = DeclOrder(form)

\* C4: with or without a declared form_name, show() returns a mapping whose
\* keys are the names of the registered fields and whose entries are the
\* fields' values as read.
C4_ShowResult ==
    /\ spc # "raised"
    /\ spc = "done" =>
        /\ DOMAIN res = Range(DeclOrder(form))
        /\ \A n \in DOMAIN res : res[n] = GetValue(ffields[n]).v

\* C5: a numeric field accepts a converted value iff the value satisfies
\* every bound that is present, strictly; zero bounds included.
C5_StrictBounds ==
    (outcome.op = "attempt" /\ field.kind \in NumericKinds /\ outcome.v # None) =>
        (outcome.raised = "none" <=>
            /\ field.min_value # None =>
                  field.min_value.n * Pow10(outcome.v.d) < outcome.v.n
            /\ field.max_value # None =>
                  outcome.v.n < field.max_value.n * Pow10(outcome.v.d))

\* C6: constructing a numeric field succeeds whether or not min_value and
\* max_value are given, and stores them as given, except that min_value
\* becomes max_value - 2 when both are given and min_value > max_value.
C6_NumericConstruction ==
    (outcome.op = "construct" /\ outcome.kind \in NumericKinds) =>
        /\ outcome.raised = "none"
        /\ field.max_value = outcome.a2
        /\ field.min_value =
              (IF outcome.a1 # None /\ outcome.a2 # None /\ outcome.a1.n > outcome.a2.n
               THEN IntV(outcome.a2.n - 2) ELSE outcome.a1)

\* C7: DateField construction fails exactly when both bounds are given and
\* later_than < earlier_than does not hold; a constructed DateField accepts
\* a parsed date iff the date is strictly inside every bound that is present.
C7_DateBounds ==
    /\ (outcome.op = "construct" /\ outcome.kind = "DateField") =>
        /\ outcome.raised \in {"none", "ValueError"}
        /\ outcome.raised = "ValueError" <=>
              (outcome.a1 # None /\ outcome.a2 # None /\ ~(outcome.a2.n < outcome.a1.n))
        /\ outcome.raised = "none" =>
              (field.earlier_than = outcome.a1 /\ field.later_than = outcome.a2)
    /\ (outcome.op = "attempt" /\ field.kind = "DateField" /\ outcome.v # None) =>
        (outcome.raised = "none" <=>
            /\ field.earlier_than # None => outcome.v.n < field.earlier_than.n
            /\ field.later_than # None => field.later_than.n < outcome.v.n)

\* a DateField with both bounds has rejected the date of its lower bound
C7_Witness ==
    /\ outcome.op = "attempt" /\ field.kind = "DateField"
    /\ field.earlier_than # None /\ field.later_than # None
    /\ outcome.v = field.later_than
    /\ outcome.raised = "ValidateError"

\* the value a field holds, as its getter gives it (None when it gives none)
HeldValue(f) == IF GetValue(f).raised = "none" THEN GetValue(f).v ELSE None

\* C8: is_valid() returns true iff every field of a declared _should_match
\* holds the value of the first one, true when none is declared, and
\* changes nothing.
C8_IsValid ==
    [][ valid' # "none" =>
          /\ valid' \in {"True", "False"}
          /\ valid' = "True" <=>
                (form.should_match.declared =>
                    \A i \in 1..Len(form.should_match.fields) :
                        PyEq(HeldValue(ffields[form.should_match.fields[1]]),
                             HeldValue(ffields[form.should_match.fields[i]])))
          /\ UNCHANGED <<form, ffields, spc, order, idx, res, rendered>> ]_vars

\* C9: a StringField with a max_length rejects a write iff the text is
\* longer than max_length; max_length 0 included.
C9_MaxLength ==
    (outcome.op = "attempt" /\ field.kind = "StringField" /\ field.max_length # None) =>
        (outcome.raised = "ValidateError" <=> Len(outcome.v.s) > field.max_length.n)

\* C10: reading value before the first successful write gives None and
\* raises nothing, for every kind of field.
C10_AbsentBeforeFirstWrite ==
    (outcome.op = "read" /\ lastGood = None) =>
        (outcome.raised = "none" /\ outcome.v = None)

====
